---- MODULE Spec2Model ----
(***************************************************************************)
(* A model of the CRM GraphQL mutations (crm/old-schema.py, the earliest   *)
(* variant, and crm/old-schema3.py, the revised variant), of the phone     *)
(* validator they share and of the relational store declared in            *)
(* crm/models.py.                                                          *)
(*                                                                         *)
(* Strings are sequences of one-character strings, so that strip(),        *)
(* lower() and the regular expressions are computed, not assumed.          *)
(* An optional value is None (the empty tuple) or Some(x) (a 1-tuple).     *)
(* Money is an integer: an input price in thousandths, a stored price in   *)
(* hundredths (DecimalField(decimal_places=2)).                            *)
(***************************************************************************)
EXTENDS Integers, Sequences, FiniteSets, TLC

VARIABLES
    variant,     \* which schema file serves the mutations: "old-schema" or "old-schema3"
    customers,   \* the Customer table, a sequence indexed by primary key
    products,    \* the Product table, a sequence indexed by primary key
    orders,      \* the Order table with its many-to-many rows, indexed by primary key
    pc,          \* per request: the position of the running mutation
    arg,         \* per request: the mutation's input
    loc,         \* per request: the mutation's local variables
    resp         \* per request: what the mutation returned (or that it raised)

vars == <<variant, customers, products, orders, pc, arg, loc, resp>>

None == <<>>
Some(x) == <<x>>
Val(o) == o[1]

(***************************************************************************)
(* Python str helpers.                                                     *)
(***************************************************************************)
Whitespace == {" ", "\n", "\t"}

RECURSIVE lstrip(_)
lstrip(s) ==
    IF Len(s) > 0 /\ s[1] \in Whitespace THEN lstrip(Tail(s)) ELSE s

RECURSIVE rstrip(_)
rstrip(s) ==
    IF Len(s) > 0 /\ s[Len(s)] \in Whitespace
    THEN rstrip(SubSeq(s, 1, Len(s) - 1))
    ELSE s

strip(s) == rstrip(lstrip(s))

LowerChar(c) ==
    CASE c = "A" -> "a"
      [] c = "B" -> "b"
      [] c = "X" -> "x"
      [] OTHER -> c

lower(s) == [i \in 1..Len(s) |-> LowerChar(s[i])]

(***************************************************************************)
(* The phone validator.  re.match anchors at the start; "$" matches at the *)
(* end of the string and also just before a newline that ends the string.  *)
(***************************************************************************)
Digits == {"0", "1", "2", "3", "4", "5", "6", "7", "8", "9"}

AllDigits(s) == \A i \in 1..Len(s) : s[i] \in Digits

PlusMinDigits == 7
PlusMaxDigits == 15

\* ^\+\d{7,15} consumed the whole of s
FullPlusPattern(s) ==
    /\ Len(s) >= 1 + PlusMinDigits
    /\ Len(s) <= 1 + PlusMaxDigits
    /\ s[1] = "+"
    /\ AllDigits(Tail(s))

\* ^\d{3}-\d{3}-\d{4} consumed the whole of s
FullDashPattern(s) ==
    /\ Len(s) = 12
    /\ AllDigits(SubSeq(s, 1, 3))
    /\ s[4] = "-"
    /\ AllDigits(SubSeq(s, 5, 7))
    /\ s[8] = "-"
    /\ AllDigits(SubSeq(s, 9, 12))

\* s without the newline that ends it
Chomp(s) ==
    IF Len(s) >= 1 /\ s[Len(s)] = "\n" THEN SubSeq(s, 1, Len(s) - 1) ELSE s

\* re.match(r'^\+\d{7,15}$', s): "$" is the end, or the place before a
\* newline that ends the string
MatchPlusPattern(s) == FullPlusPattern(s) \/ FullPlusPattern(Chomp(s))

\* re.match(r'^\d{3}-\d{3}-\d{4}$', s)
MatchDashPattern(s) == FullDashPattern(s) \/ FullDashPattern(Chomp(s))

\* phone is an optional string
is_valid_phone(phone) ==
    IF phone = None \/ Val(phone) = <<>>
    THEN TRUE
    ELSE MatchPlusPattern(Val(phone)) \/ MatchDashPattern(Val(phone))

(***************************************************************************)
(* Requests, payloads and errors.                                          *)
(***************************************************************************)
Slots == {1, 2}

Variants == {"old-schema", "old-schema3"}

Revised == variant = "old-schema3"

\* one entry of a payload's `errors` list: the text, the 1-based record
\* position it is tagged with (0: none) and the ids it names
Err(text) == [text |-> text, idx |-> 0, ids |-> <<>>]
RecErr(i, text) == [text |-> text, idx |-> i, ids |-> <<>>]
IdsErr(text, ids) == [text |-> text, idx |-> 0, ids |-> ids]

NoResp == [kind |-> "none", op |-> ""]

\* CreateCustomerPayload / CreateProductPayload / CreateOrderPayload of the
\* mutation op: obj is the customer / product / order field (None or
\* Some(primary key)); the earliest variant's customer and product payloads
\* have no errors field (errors is empty here)
Payload(op, obj, success, message, errors) ==
    [kind |-> "payload", op |-> op, obj |-> obj, success |-> success,
     message |-> message, errors |-> errors]

BulkCreateCustomersPayload(created, errors) ==
    [kind |-> "payload", op |-> "bulk_create_customers",
     customers |-> created, errors |-> errors]

\* the exception left mutate() uncaught
Raised(op, exc) == [kind |-> "raised", op |-> op, exc |-> exc]

NoLoc == [name |-> <<>>, email |-> <<>>, phone |-> None, idx |-> 0,
          created |-> <<>>, errors |-> <<>>,
          price |-> 0, stock |-> 0,
          customer |-> 0, prods |-> <<>>, order |-> 0, savepoint |-> <<>>]

Idle(r) == pc[r] = "idle"

\* the mutation of request r returns (or raises) `out`
Return(r, out) ==
    /\ pc' = [pc EXCEPT ![r] = "done"]
    /\ resp' = [resp EXCEPT ![r] = out]
    /\ loc' = [loc EXCEPT ![r] = NoLoc]

Goto(r, label, l) ==
    /\ pc' = [pc EXCEPT ![r] = label]
    /\ loc' = [loc EXCEPT ![r] = l]
    /\ UNCHANGED resp

(***************************************************************************)
(* The Customer table.                                                     *)
(***************************************************************************)
\* Customer.objects.filter(email=email).exists()
CustomerEmailExists(table, email) ==
    \E i \in 1..Len(table) : table[i].email = email

\* Customer.objects.create(...): email is unique=True, so the insert of a
\* second row with the same email raises IntegrityError; `fault` is any
\* other store-level failure of the insert
CustomerCreateResult(table, row, fault) ==
    IF CustomerEmailExists(table, row.email)
    THEN [ok |-> FALSE, exc |-> "IntegrityError", table |-> table, pk |-> 0]
    ELSE IF fault
    THEN [ok |-> FALSE, exc |-> "DatabaseError", table |-> table, pk |-> 0]
    ELSE [ok |-> TRUE, exc |-> "", table |-> Append(table, row),
          pk |-> Len(table) + 1]

(***************************************************************************)
(* Inputs of the customer mutations.                                       *)
(***************************************************************************)
NameA == <<" ", "A", " ">>
BlankName == <<" ">>
EmailA == <<"a", "@", "x">>
EmailAUpper == <<" ", "A", "@", "X", " ">>
EmailB == <<"b", "@", "x">>
BlankEmail == <<" ">>
PlusPhone == Some(<<" ", "+", "1", "2", "3", "4", "5", "6", "7", "\n">>)
ShortPhone == Some(<<"+", "1", "2", "3">>)

CustomerInputs ==
    { [name |-> NameA, email |-> EmailA, phone |-> None],
      [name |-> NameA, email |-> EmailAUpper, phone |-> PlusPhone],
      [name |-> BlankName, email |-> EmailA, phone |-> None],
      [name |-> NameA, email |-> EmailA, phone |-> ShortPhone],
      [name |-> NameA, email |-> BlankEmail, phone |-> None],
      [name |-> BlankName, email |-> BlankEmail, phone |-> ShortPhone],
      [name |-> NameA, email |-> EmailB, phone |-> None] }

\* the inputs used where the other mutations run as well
CoreCustomerInputs ==
    { [name |-> NameA, email |-> EmailA, phone |-> None],
      [name |-> NameA, email |-> EmailAUpper, phone |-> PlusPhone],
      [name |-> BlankName, email |-> BlankEmail, phone |-> ShortPhone],
      [name |-> NameA, email |-> EmailB, phone |-> None] }

\* (input.phone or "").strip() if getattr(input, "phone", None) else None
CleanPhone(phone) ==
    IF phone = None \/ Val(phone) = <<>> THEN None ELSE Some(strip(Val(phone)))

CleanName(name) == strip(name)

\* a variant that forgets .lower()
CleanEmailNoLower(email) == strip(email)

CleanEmail(email) == lower(strip(email))

Truthy(phone) == phone # None /\ Val(phone) # <<>>

(***************************************************************************)
(* CreateCustomer.mutate                                                   *)
(***************************************************************************)
\* the validation errors of the revised variant, all collected
CustomerValidationErrors(name, email, phone) ==
    (IF name = <<>> THEN <<Err("Name is required.")>> ELSE <<>>)
    \o (IF email = <<>> THEN <<Err("Email is required.")>> ELSE <<>>)
    \o (IF Truthy(phone) /\ ~is_valid_phone(phone)
        THEN <<Err("Phone format invalid.")>> ELSE <<>>)

BeginCreateCustomer(r, inputs) ==
    /\ Idle(r)
    /\ \E in \in inputs :
        LET name == CleanName(in.name)
            email == CleanEmail(in.email)
            phone == CleanPhone(in.phone)
            errors == CustomerValidationErrors(name, email, phone)
            l == [NoLoc EXCEPT !.name = name, !.email = email, !.phone = phone]
        IN  /\ arg' = [arg EXCEPT ![r] = in]
            /\ IF Revised
               THEN IF errors # <<>>
                    THEN Return(r, Payload("create_customer", None, FALSE, "Validation failed.", errors))
                    ELSE Goto(r, "cc_exists", l)
               ELSE IF ~is_valid_phone(phone)
                    THEN Return(r, Payload("create_customer", None, FALSE, "Invalid phone format.", <<>>))
                    ELSE Goto(r, "cc_exists", l)
    /\ UNCHANGED <<variant, customers, products, orders>>

\* the unique email check
CreateCustomerExists(r) ==
    /\ pc[r] = "cc_exists"
    /\ IF CustomerEmailExists(customers, loc[r].email)
       THEN Return(r, Payload("create_customer", None, FALSE, "Email already exists.",
                              IF Revised THEN <<Err("Email already exists.")>> ELSE <<>>))
       ELSE Goto(r, "cc_create", loc[r])
    /\ UNCHANGED <<variant, customers, products, orders, arg>>

\* Customer.objects.create, inside try/except in the revised variant only
CreateCustomerCreate(r, faults) ==
    /\ pc[r] = "cc_create"
    /\ \E fault \in faults :
        LET row == [name |-> loc[r].name, email |-> loc[r].email,
                    phone |-> loc[r].phone]
            res == CustomerCreateResult(customers, row, fault)
        IN  /\ customers' = res.table
            /\ IF res.ok
               THEN Return(r, Payload("create_customer", Some(res.pk), TRUE, "Customer created.", <<>>))
               ELSE IF Revised
               THEN Return(r, Payload("create_customer", None, FALSE, "Error creating customer.",
                                      <<Err(res.exc)>>))
               ELSE Return(r, Raised("create_customer", res.exc))
    /\ UNCHANGED <<variant, products, orders, arg>>

(***************************************************************************)
(* BulkCreateCustomers.mutate: one loop iteration is the validation and    *)
(* the existence query (BulkCheck) and then the insert (BulkCreate).       *)
(***************************************************************************)
MaxBatch == 3
MaxBatchAll == 1

BulkRecords ==
    { [name |-> NameA, email |-> EmailA, phone |-> None],
      [name |-> NameA, email |-> EmailAUpper, phone |-> None],
      [name |-> BlankName, email |-> EmailB, phone |-> None],
      [name |-> NameA, email |-> BlankEmail, phone |-> None],
      [name |-> NameA, email |-> EmailB, phone |-> ShortPhone],
      [name |-> BlankName, email |-> BlankEmail, phone |-> ShortPhone],
      [name |-> NameA, email |-> EmailB, phone |-> None] }

Batches(limit) == UNION { [1..n -> BulkRecords] : n \in 0..limit }

BeginBulkCreateCustomers(r, limit) ==
    /\ Idle(r)
    /\ \E batch \in Batches(limit) :
        /\ arg' = [arg EXCEPT ![r] = batch]
        /\ Goto(r, "bk_check", [NoLoc EXCEPT !.idx = 1])
    /\ UNCHANGED <<variant, customers, products, orders>>

\* a variant that gives up at the first failing record
BulkAbort(r, text) ==
    Return(r, BulkCreateCustomersPayload(
                  loc[r].created, Append(loc[r].errors, RecErr(loc[r].idx, text))))

\* errors.append(f"Record {idx}: ..."); continue
BulkSkip(r, text) ==
    Goto(r, "bk_check",
         [loc[r] EXCEPT !.idx = loc[r].idx + 1,
                        !.errors = Append(loc[r].errors, RecErr(loc[r].idx, text))])

\* a variant that checks against the emails persisted before the batch
BulkEmailExistsBeforeBatch(r, email) ==
    CustomerEmailExists(SubSeq(customers, 1, Len(customers) - Len(loc[r].created)),
                        email)

\* Customer.objects.filter(email=email).exists(), queried for each record
BulkEmailExists(r, email) == CustomerEmailExists(customers, email)

BulkCheck(r) ==
    /\ pc[r] = "bk_check"
    /\ LET l == loc[r]
           idx == l.idx
           skip(text) == BulkSkip(r, text)
       IN  IF idx > Len(arg[r])
           THEN Return(r, BulkCreateCustomersPayload(l.created, l.errors))
           ELSE LET name == CleanName(arg[r][idx].name)
                    email == CleanEmail(arg[r][idx].email)
                    phone == CleanPhone(arg[r][idx].phone)
                IN  IF name = <<>> THEN skip("name is required.")
                    ELSE IF email = <<>> THEN skip("email is required.")
                    ELSE IF ~is_valid_phone(phone) THEN skip("invalid phone format.")
                    ELSE IF BulkEmailExists(r, email)
                    THEN skip("email already exists.")
                    ELSE Goto(r, "bk_create",
                              [l EXCEPT !.name = name, !.email = email, !.phone = phone])
    /\ UNCHANGED <<variant, customers, products, orders, arg>>

\* a variant that reports every created customer in the errors as well
BulkCreateAndReport(r) ==
    /\ pc[r] = "bk_create"
    /\ LET l == loc[r]
           row == [name |-> l.name, email |-> l.email, phone |-> l.phone]
           res == CustomerCreateResult(customers, row, FALSE)
           next == [l EXCEPT !.idx = l.idx + 1, !.name = <<>>, !.email = <<>>,
                             !.phone = None,
                             !.errors = Append(l.errors, RecErr(l.idx, "unexpected error"))]
       IN  /\ customers' = res.table
           /\ IF res.ok
              THEN Goto(r, "bk_check", [next EXCEPT !.created = Append(l.created, res.pk)])
              ELSE Goto(r, "bk_check", next)
    /\ UNCHANGED <<variant, products, orders, arg>>

BulkCreate(r) ==
    /\ pc[r] = "bk_create"
    /\ \E fault \in BOOLEAN :
        LET l == loc[r]
            row == [name |-> l.name, email |-> l.email, phone |-> l.phone]
            res == CustomerCreateResult(customers, row, fault)
            next == [l EXCEPT !.idx = l.idx + 1, !.name = <<>>, !.email = <<>>,
                              !.phone = None]
        IN  /\ customers' = res.table
            /\ IF res.ok
               THEN Goto(r, "bk_check", [next EXCEPT !.created = Append(l.created, res.pk)])
               ELSE Goto(r, "bk_check",
                         [next EXCEPT !.errors =
                              Append(l.errors, RecErr(l.idx, "unexpected error"))])
    /\ UNCHANGED <<variant, products, orders, arg>>

(***************************************************************************)
(* The Product table.  price is DecimalField(max_digits=10,                *)
(* decimal_places=2): the value written is the price quantized to two      *)
(* places (half-even).  A value of more than max_digits digits cannot be   *)
(* written: that failure is one of the store faults.                       *)
(***************************************************************************)
\* thousandths to hundredths, rounding half to even
Quantize2(mills) ==
    LET q == mills \div 10
        rem == mills % 10
    IN  IF rem < 5 THEN q
        ELSE IF rem > 5 THEN q + 1
        ELSE IF q % 2 = 0 THEN q ELSE q + 1

\* a variant that writes the new row over the last row of the table
ProductCreateOverwrite(table, name, price, stock, fault) ==
    LET row == [name |-> name, price |-> Quantize2(price), stock |-> stock]
    IN  IF table = <<>>
        THEN [ok |-> TRUE, exc |-> "", table |-> <<row>>, pk |-> 1]
        ELSE [ok |-> TRUE, exc |-> "",
              table |-> [table EXCEPT ![Len(table)] = row], pk |-> Len(table)]

\* Product.objects.create(name=name, price=price, stock=stock)
ProductCreateResult(table, name, price, stock, fault) ==
    IF fault
    THEN [ok |-> FALSE, exc |-> "DatabaseError", table |-> table, pk |-> 0]
    ELSE [ok |-> TRUE, exc |-> "",
          table |-> Append(table, [name |-> name, price |-> Quantize2(price),
                                   stock |-> stock]),
          pk |-> Len(table) + 1]

MaxProducts == 2

\* price in thousandths; stock is optional
ProductInputs ==
    { [name |-> <<"P">>, price |-> -5000, stock |-> Some(3)],
      [name |-> <<"P">>, price |-> 0, stock |-> None],
      [name |-> <<"P">>, price |-> 4, stock |-> None],
      [name |-> <<"P">>, price |-> 5250, stock |-> Some(3)],
      [name |-> <<"P">>, price |-> 10000, stock |-> Some(0)],
      [name |-> <<"P">>, price |-> 10000, stock |-> Some(-1)] }

(***************************************************************************)
(* CreateProduct.mutate                                                    *)
(***************************************************************************)
BeginCreateProduct(r) ==
    /\ Idle(r)
    /\ Len(products) < MaxProducts
    /\ \E in \in ProductInputs :
        LET name == strip(in.name)
            stock == IF in.stock # None THEN Val(in.stock) ELSE 0
            price == in.price
            fail(text) ==
                Return(r, Payload("create_product", None, FALSE, text,
                                  IF Revised THEN <<Err(text)>> ELSE <<>>))
        IN  /\ arg' = [arg EXCEPT ![r] = in]
            /\ IF price <= 0 THEN fail("Price must be positive.")
               ELSE IF stock < 0 THEN fail("Stock cannot be negative.")
               ELSE Goto(r, "cp_create",
                         [NoLoc EXCEPT !.name = name, !.price = price, !.stock = stock])
    /\ UNCHANGED <<variant, customers, products, orders>>

\* Product.objects.create, inside try/except in the revised variant only
CreateProductCreate(r) ==
    /\ pc[r] = "cp_create"
    /\ \E fault \in BOOLEAN :
        LET res == ProductCreateResult(products, loc[r].name, loc[r].price,
                                       loc[r].stock, fault)
        IN  /\ products' = res.table
            /\ IF res.ok
               THEN Return(r, Payload("create_product", Some(res.pk), TRUE, "Product created.", <<>>))
               ELSE IF Revised
               THEN Return(r, Payload("create_product", None, FALSE, "Error creating product.",
                                      <<Err(res.exc)>>))
               ELSE Return(r, Raised("create_product", res.exc))
    /\ UNCHANGED <<variant, customers, orders, arg>>

(***************************************************************************)
(* The Order table and CreateOrder.mutate.                                 *)
(***************************************************************************)
MaxOrders == 1
MaxIds == 2

\* ids a client may send: two that can exist and one that never does
IdInputs == {1, 2, 9}

\* timezone.now() at the time of the call
Now == [now |-> TRUE, y |-> 0, m |-> 0, d |-> 0]

DigitVal(c) ==
    CASE c = "0" -> 0 [] c = "1" -> 1 [] c = "2" -> 2 [] c = "3" -> 3
      [] c = "4" -> 4 [] c = "5" -> 5 [] c = "6" -> 6 [] c = "7" -> 7
      [] c = "8" -> 8 [] c = "9" -> 9

RECURSIVE Number(_)
Number(s) ==
    IF s = <<>> THEN 0
    ELSE 10 * Number(SubSeq(s, 1, Len(s) - 1)) + DigitVal(s[Len(s)])

IsLeap(y) == (y % 4 = 0 /\ y % 100 # 0) \/ y % 400 = 0

DaysIn(y, m) ==
    IF m = 2 THEN (IF IsLeap(y) THEN 29 ELSE 28)
    ELSE IF m \in {4, 6, 9, 11} THEN 30 ELSE 31

\* datetime.fromisoformat on a string of at most ten characters: the
\* date-only form YYYY-MM-DD is the only one that parses; None stands for
\* the ValueError
fromisoformat(s) ==
    IF /\ Len(s) = 10
       /\ AllDigits(SubSeq(s, 1, 4)) /\ s[5] = "-"
       /\ AllDigits(SubSeq(s, 6, 7)) /\ s[8] = "-"
       /\ AllDigits(SubSeq(s, 9, 10))
    THEN LET y == Number(SubSeq(s, 1, 4))
             m == Number(SubSeq(s, 6, 7))
             d == Number(SubSeq(s, 9, 10))
         IN  IF y >= 1 /\ m \in 1..12 /\ d \in 1..DaysIn(y, m)
             THEN Some([now |-> FALSE, y |-> y, m |-> m, d |-> d])
             ELSE None
    ELSE None

DateInputs ==
    { None,
      Some(<<"2", "0", "2", "4", "-", "0", "2", "-", "2", "9">>),
      Some(<<"2", "0", "2", "3", "-", "0", "2", "-", "2", "9">>) }

IdLists == UNION { [1..n -> IdInputs] : n \in 0..MaxIds }

\* every customer id with every id list, and every order_date with one list
OrderInputs ==
    [customer_id : {1, 9}, product_ids : IdLists, order_date : {None}]
    \cup [customer_id : {1}, product_ids : {<<1>>}, order_date : DateInputs]

\* the products list and the invalid ids, in input order
RECURSIVE Resolved(_, _)
Resolved(table, ids) ==
    IF ids = <<>> THEN <<>>
    ELSE (IF ids[1] \in 1..Len(table)
          THEN <<[pk |-> ids[1], price |-> table[ids[1]].price]>>
          ELSE <<>>) \o Resolved(table, Tail(ids))

\* a fail-fast variant: only the first unresolved id is kept
RECURSIVE UnresolvedFirst(_, _)
UnresolvedFirst(table, ids) ==
    IF ids = <<>> THEN <<>>
    ELSE IF ids[1] \in 1..Len(table) THEN UnresolvedFirst(table, Tail(ids))
    ELSE <<ids[1]>>

RECURSIVE Unresolved(_, _)
Unresolved(table, ids) ==
    IF ids = <<>> THEN <<>>
    ELSE (IF ids[1] \in 1..Len(table) THEN <<>> ELSE <<ids[1]>>)
         \o Unresolved(table, Tail(ids))

\* the errors list built from the unresolved ids
InvalidIdErrors(invalid) ==
    IF Revised
    THEN <<IdsErr("Invalid product IDs", invalid)>>
    ELSE [i \in 1..Len(invalid) |-> IdsErr("Invalid product ID", <<invalid[i]>>)]

\* total = Decimal("0.00"); for p in products: total += p.price
RECURSIVE SumPrices(_)
SumPrices(ps) ==
    IF ps = <<>> THEN 0 ELSE ps[1].price + SumPrices(Tail(ps))

\* order.products.set(products): the many-to-many rows are a set
ProductSet(ps) == { ps[i].pk : i \in 1..Len(ps) }

\* the order_date the order row is created with
OrderDate(in) ==
    IF Revised /\ in.order_date # None /\ Val(in.order_date) # <<>>
            /\ fromisoformat(Val(in.order_date)) # None
    THEN Val(fromisoformat(Val(in.order_date)))
    ELSE Now

\* a variant that takes any id for the id of a customer
CustomerGetAny(table, pk) == TRUE

\* Customer.objects.get(pk=input.customer_id) finds the row (it raises
\* Customer.DoesNotExist otherwise)
CustomerGet(table, pk) == pk \in 1..Len(table)

\* customer lookup, product lookups, up to the entry of transaction.atomic()
BeginCreateOrder(r) ==
    /\ Idle(r)
    /\ Len(orders) < MaxOrders
    /\ \E in \in OrderInputs :
        LET invalid == Unresolved(products, in.product_ids)
        IN  /\ arg' = [arg EXCEPT ![r] = in]
            /\ IF ~CustomerGet(customers, in.customer_id)
               THEN Return(r, Payload("create_order", None, FALSE, "Invalid customer ID.",
                                      <<Err("Invalid customer ID.")>>))
               ELSE IF in.product_ids = <<>>
               THEN Return(r, IF Revised
                              THEN Payload("create_order", None, FALSE, "At least one product must be provided.",
                                           <<Err("At least one product must be provided.")>>)
                              ELSE Payload("create_order", None, FALSE, "At least one product must be selected.",
                                           <<Err("At least one product is required.")>>))
               ELSE IF invalid # <<>>
               THEN Return(r, Payload("create_order", None, FALSE,
                                      IF Revised THEN "Invalid product IDs provided."
                                      ELSE "One or more product IDs are invalid.",
                                      InvalidIdErrors(invalid)))
               ELSE Goto(r, "co_create",
                         [NoLoc EXCEPT !.customer = in.customer_id,
                                       !.prods = Resolved(products, in.product_ids),
                                       !.savepoint = orders])
    /\ UNCHANGED <<variant, customers, products, orders>>

\* an exception inside `with transaction.atomic()`: the writes of the block
\* are rolled back, the except clause builds the payload
RollBack(r, exc) ==
    /\ orders' = loc[r].savepoint
    /\ Return(r, Payload("create_order", None, FALSE,
                          IF Revised THEN "Error creating order." ELSE "Error creating order: " \o exc,
                          <<Err(exc)>>))

\* Order.objects.create(customer=customer, order_date=...)
CreateOrderCreate(r) ==
    /\ pc[r] = "co_create"
    /\ \E fault \in BOOLEAN :
        IF fault
        THEN RollBack(r, "DatabaseError")
        ELSE /\ orders' = Append(orders, [customer |-> loc[r].customer,
                                          products |-> {},
                                          total_amount |-> 0,
                                          order_date |-> OrderDate(arg[r])])
             /\ Goto(r, "co_set", [loc[r] EXCEPT !.order = Len(orders) + 1])
    /\ UNCHANGED <<variant, customers, products, arg>>

\* order.products.set(products)
CreateOrderSetProducts(r) ==
    /\ pc[r] = "co_set"
    /\ \E fault \in BOOLEAN :
        IF fault
        THEN RollBack(r, "DatabaseError")
        ELSE /\ orders' = [orders EXCEPT ![loc[r].order].products =
                               ProductSet(loc[r].prods)]
             /\ Goto(r, "co_save", loc[r])
    /\ UNCHANGED <<variant, customers, products, arg>>

\* the total, order.save(...) and the commit at the end of the block
CreateOrderSaveTotal(r) ==
    /\ pc[r] = "co_save"
    /\ \E fault \in BOOLEAN :
        LET total == SumPrices(loc[r].prods)
        IN  IF fault
            THEN RollBack(r, "DatabaseError")
            ELSE /\ orders' = [orders EXCEPT ![loc[r].order].total_amount = total]
                 /\ Return(r, Payload("create_order", Some(loc[r].order), TRUE, "Order created.", <<>>))
    /\ UNCHANGED <<variant, customers, products, arg>>

\* the caller has read the response; the request slot is free again
Finish(r) ==
    /\ pc[r] = "done"
    /\ pc' = [pc EXCEPT ![r] = "idle"]
    /\ resp' = [resp EXCEPT ![r] = NoResp]
    /\ arg' = [arg EXCEPT ![r] = <<>>]
    /\ UNCHANGED <<variant, customers, products, orders, loc>>

Init ==
    /\ variant \in Variants
    /\ customers = <<>>
    /\ products = <<>>
    /\ orders = <<>>
    /\ pc = [r \in Slots |-> "idle"]
    /\ arg = [r \in Slots |-> <<>>]
    /\ loc = [r \in Slots |-> NoLoc]
    /\ resp = [r \in Slots |-> NoResp]

\* every mutation, one request at a time
Next ==
    \/ BeginCreateCustomer(1, CoreCustomerInputs)
    \/ CreateCustomerExists(1)
    \/ CreateCustomerCreate(1, BOOLEAN)
    \/ BeginBulkCreateCustomers(1, MaxBatchAll)
    \/ BulkCheck(1)
    \/ BulkCreate(1)
    \/ BeginCreateProduct(1)
    \/ CreateProductCreate(1)
    \/ BeginCreateOrder(1)
    \/ CreateOrderCreate(1)
    \/ CreateOrderSetProducts(1)
    \/ CreateOrderSaveTotal(1)
    \/ Finish(1)

Spec == Init /\ [][Next]_vars

\* the customer mutations only, one request at a time, longer batches
NextCustomers ==
    \/ BeginCreateCustomer(1, CustomerInputs)
    \/ CreateCustomerExists(1)
    \/ CreateCustomerCreate(1, BOOLEAN)
    \/ BeginBulkCreateCustomers(1, MaxBatch)
    \/ BulkCheck(1)
    \/ BulkCreate(1)
    \/ Finish(1)

SpecCustomers == Init /\ [][NextCustomers]_vars

\* two create-customer requests, interleaved statement by statement; the
\* unique constraint is the only reason for an insert to fail
NextConc ==
    \E r \in Slots :
        \/ BeginCreateCustomer(r, CustomerInputs)
        \/ CreateCustomerExists(r)
        \/ CreateCustomerCreate(r, {FALSE})
        \/ Finish(r)

SpecConc == Init /\ [][NextConc]_vars

(***************************************************************************)
(* The phone validator on its own: arg[1] is the argument, built run by    *)
(* run, resp[1] the value is_valid_phone returns for it.                   *)
(***************************************************************************)
MaxRuns == 6

Rep(c, n) == [i \in 1..n |-> c]

PhoneRuns ==
    { <<"+">>, <<"-">>, <<"a">>, <<"\n">> }
    \cup { Rep("5", n) : n \in {1, 3, 4, 7, 15} }

Validated(phone) ==
    [kind |-> "value", op |-> "is_valid_phone", value |-> is_valid_phone(phone)]

InitPhone ==
    /\ variant \in Variants
    /\ customers = <<>>
    /\ products = <<>>
    /\ orders = <<>>
    /\ pc = [r \in Slots |-> "idle"]
    /\ arg = [r \in Slots |-> None]
    /\ loc = [r \in Slots |-> NoLoc]
    /\ resp = [r \in Slots |-> IF r = 1 THEN Validated(None) ELSE NoResp]

\* from the absent phone to the empty string
PhoneEmpty ==
    /\ arg[1] = None
    /\ arg' = [arg EXCEPT ![1] = Some(<<>>)]
    /\ resp' = [resp EXCEPT ![1] = Validated(Some(<<>>))]
    /\ UNCHANGED <<variant, customers, products, orders, pc, loc>>

PhoneAppend ==
    /\ arg[1] # None
    /\ loc[1].idx < MaxRuns
    /\ \E run \in PhoneRuns :
        /\ arg' = [arg EXCEPT ![1] = Some(Val(arg[1]) \o run)]
        /\ resp' = [resp EXCEPT ![1] = Validated(Some(Val(arg[1]) \o run))]
    /\ loc' = [loc EXCEPT ![1].idx = loc[1].idx + 1]
    /\ UNCHANGED <<variant, customers, products, orders, pc>>

NextPhone == PhoneEmpty \/ PhoneAppend

SpecPhone == InitPhone /\ [][NextPhone]_vars

(***************************************************************************)
(* ProductFilter.filter_low_stock on its own.  The value handed to the     *)
(* method is absent, a Decimal (NumberFilter cleans the parameter with a   *)
(* decimal form field; here in tenths) or a string.  The queryset is a set *)
(* of primary keys of the Product table.                                   *)
(***************************************************************************)
MaxRows == 2

NoValue == [type |-> "None", tenths |-> 0, s |-> <<>>]
DecimalValue(t) == [type |-> "Decimal", tenths |-> t, s |-> <<>>]
StrValue(s) == [type |-> "str", tenths |-> 0, s |-> s]

\* int(s) for a string: surrounding whitespace is dropped, one sign is
\* allowed, the rest is decimal digits; None stands for the ValueError
IntOfStr(s) ==
    LET t == strip(s)
        signed == Len(t) > 0 /\ t[1] \in {"+", "-"}
        body == IF signed THEN Tail(t) ELSE t
    IN  IF body # <<>> /\ AllDigits(body)
        THEN Some(IF signed /\ t[1] = "-" THEN 0 - Number(body) ELSE Number(body))
        ELSE None

\* int(d) for a Decimal: the fraction is dropped, rounding toward zero
IntOfDecimal(t) == IF t >= 0 THEN t \div 10 ELSE 0 - ((0 - t) \div 10)

\* threshold = int(value); None stands for the TypeError (absent value) or
\* the ValueError
IntOf(value) ==
    CASE value.type = "None" -> None
      [] value.type = "Decimal" -> Some(IntOfDecimal(value.tenths))
      [] value.type = "str" -> IntOfStr(value.s)

filter_low_stock(queryset, value) ==
    IF IntOf(value) = None
    THEN queryset
    ELSE { pk \in queryset : products[pk].stock < Val(IntOf(value)) }

StockInputs == {0, 1, 2, 3}

LowStockValues ==
    { NoValue }
    \cup { DecimalValue(t) : t \in {-5, 0, 5, 20, 25, 30, 40} }
    \cup { StrValue(s) : s \in { <<>>, <<"a", "b", "c">>, <<"2">>, <<" ", "3", "\n">>,
                                 <<"-", "1">>, <<"2", ".", "5">> } }

ProductTables ==
    UNION { [1..n -> [name : {<<"P">>}, price : {525}, stock : StockInputs]] :
                n \in 0..MaxRows }

InitFilter ==
    /\ variant \in Variants
    /\ customers = <<>>
    /\ products \in ProductTables
    /\ orders = <<>>
    /\ pc = [r \in Slots |-> "idle"]
    /\ arg = [r \in Slots |-> <<>>]
    /\ loc = [r \in Slots |-> NoLoc]
    /\ resp = [r \in Slots |-> NoResp]

\* a products query with the low_stock parameter, on any queryset
FilterLowStock ==
    /\ Idle(1)
    /\ \E queryset \in SUBSET (1..Len(products)), value \in LowStockValues :
        /\ arg' = [arg EXCEPT ![1] = [queryset |-> queryset, value |-> value]]
        /\ Return(1, [kind |-> "queryset", op |-> "filter_low_stock",
                      rows |-> filter_low_stock(queryset, value)])
    /\ UNCHANGED <<variant, customers, products, orders>>

NextFilter == FilterLowStock \/ Finish(1)

SpecFilter == InitFilter /\ [][NextFilter]_vars

(***************************************************************************)
(* Properties.  A property about "the call" is stated on the step with     *)
(* which request 1 returns: the unprimed store is the store the call       *)
(* found, the primed one the store it leaves.                              *)
(***************************************************************************)
Returns(op) == pc[1] # "done" /\ pc'[1] = "done" /\ resp'[1].op = op

\* the call returned a payload (it did not raise)
Returned(op) == pc[1] = "done" /\ resp[1].op = op /\ resp[1].kind = "payload"

IsPayload(p) == p.kind = "payload"

UniqueEmails ==
    \A i, j \in 1..Len(customers) :
        customers[i].email = customers[j].email => i = j

\* the email of the create-customer input, trimmed and lower-cased, is the
\* email of a customer the call found in the store
C1_EmailTaken ==
    \E i \in 1..Len(customers) :
        customers[i].email = lower(strip(arg'[1].email))

C1_Refused ==
    /\ IsPayload(resp'[1])
    /\ ~resp'[1].success
    /\ resp'[1].obj = None
    /\ customers' = customers

C1_OtherFieldsValid ==
    /\ strip(arg'[1].name) # <<>>
    /\ is_valid_phone(CleanPhone(arg'[1].phone))

RECURSIVE SumOfPrices(_)
SumOfPrices(pks) ==
    IF pks = {} THEN 0
    ELSE LET pk == CHOOSE x \in pks : TRUE
         IN  products[pk].price + SumOfPrices(pks \ {pk})

IdsOf(ids) == { ids[i] : i \in 1..Len(ids) }

\* C2, as claimed: after a successful create-order call, whatever the
\* (non-empty, resolvable, possibly repeating) id sequence, the order's
\* total_amount is the sum of the prices of the products the order is
\* associated with, and these are exactly the referenced products.
C2_TotalIsSumOfAssociated ==
    (Returned("create_order") /\ resp[1].success) =>
        LET order == orders[Val(resp[1].obj)]
        IN  /\ order.products = IdsOf(arg[1].product_ids)
            /\ order.total_amount = SumOfPrices(order.products)

\* the all-or-nothing part of C3: a create-order call that entered the
\* transaction either leaves the order with its products and its total, or
\* leaves the Order table as it was at the entry of the transaction
C3_AllOrNothing ==
    (Returns("create_order") /\ pc[1] \in {"co_create", "co_set", "co_save"}) =>
        /\ IsPayload(resp'[1])
        /\ IF resp'[1].success
           THEN /\ Len(orders') = Len(loc[1].savepoint) + 1
                /\ SubSeq(orders', 1, Len(loc[1].savepoint)) = loc[1].savepoint
                /\ resp'[1].obj = Some(Len(orders'))
                /\ orders'[Len(orders')].products = IdsOf(arg[1].product_ids)
                /\ orders'[Len(orders')].total_amount = SumPrices(loc[1].prods)
           ELSE /\ orders' = loc[1].savepoint
                /\ resp'[1].obj = None

C3_NoPartialOrder ==
    \A i \in 1..Len(orders') :
        orders'[i].products # {} /\ orders'[i].total_amount # 0

\* C3, as claimed: order creation is all-or-nothing, and after the call
\* returns no order without products or with a total of 0 is in the store.
C3_AtomicAndNoZeroTotal ==
    [][/\ C3_AllOrNothing
       /\ Returns("create_order") => C3_NoPartialOrder]_vars

\* the all-or-nothing part alone, which holds
C3_AllOrNothingHolds == [][C3_AllOrNothing]_vars

\* the ids of the create-order input that no product of the store has
C4_UnresolvedIds ==
    { id \in IdsOf(arg'[1].product_ids) : id \notin 1..Len(products) }

C4_NamedIds ==
    UNION { IdsOf(resp'[1].errors[i].ids) : i \in 1..Len(resp'[1].errors) }

\* C4: a create-order call with an existing customer and at least one
\* unresolved product id creates no order, returns success=false with errors
\* naming every unresolved id, and leaves customers, products and orders
\* unchanged.
C4_UnresolvedIdsAllReported ==
    [][(/\ Returns("create_order")
        /\ arg'[1].customer_id \in 1..Len(customers)
        /\ C4_UnresolvedIds # {})
        => /\ IsPayload(resp'[1])
           /\ ~resp'[1].success
           /\ resp'[1].obj = None
           /\ C4_UnresolvedIds \subseteq C4_NamedIds
           /\ <<customers, products, orders>>' = <<customers, products, orders>>]_vars

\* a create-order call by an existing customer naming two different
\* unresolved ids, with a product in the catalogue, returned
C4_Witness ==
    /\ Returned("create_order")
    /\ arg[1].customer_id \in 1..Len(customers)
    /\ Len(products) > 0
    /\ \E j, k \in 1..Len(arg[1].product_ids) :
        /\ arg[1].product_ids[j] \notin 1..Len(products)
        /\ arg[1].product_ids[k] \notin 1..Len(products)
        /\ arg[1].product_ids[j] # arg[1].product_ids[k]
    /\ ~resp[1].success

(***************************************************************************)
(* Bulk creation, read off the returned payload.  One request at a time:   *)
(* the customers the batch did not create were in the store before it.     *)
(***************************************************************************)
BulkReturned == Returned("bulk_create_customers")

BulkCreated == { resp[1].customers[k] : k \in 1..Len(resp[1].customers) }

BulkPreEmails ==
    { customers[k].email : k \in (1..Len(customers)) \ BulkCreated }

BulkNorm(i) == lower(strip(arg[1][i].email))

BulkValid(i) ==
    /\ strip(arg[1][i].name) # <<>>
    /\ BulkNorm(i) # <<>>
    /\ is_valid_phone(CleanPhone(arg[1][i].phone))

BulkErrorAt(i, text) ==
    \E k \in 1..Len(resp[1].errors) :
        resp[1].errors[k].idx = i /\ resp[1].errors[k].text = text

BulkAnyErrorAt(i) ==
    \E k \in 1..Len(resp[1].errors) : resp[1].errors[k].idx = i

BulkCreatedWith(email) ==
    { pk \in BulkCreated \cap (1..Len(customers)) : customers[pk].email = email }

\* no valid record before i carries the email of record i
BulkFirst(i) ==
    \A j \in 1..(i - 1) : ~(BulkValid(j) /\ BulkNorm(j) = BulkNorm(i))

\* C5: in bulk-create-customers a failing record gets an error tagged with
\* its 1-based position, the records after it are still processed and the
\* customers created before it stay: every invalid record and every record
\* whose email was persisted before has an error at its position, and every
\* valid record with a new email is persisted unless its own insert failed.
C5_FailuresAreIsolated ==
    BulkReturned =>
        /\ BulkCreated \subseteq 1..Len(customers)
        /\ \A i \in 1..Len(arg[1]) :
            /\ ~BulkValid(i) => BulkAnyErrorAt(i)
            /\ (BulkValid(i) /\ BulkNorm(i) \in BulkPreEmails)
                    => BulkErrorAt(i, "email already exists.")
            /\ (BulkValid(i) /\ BulkNorm(i) \notin BulkPreEmails /\ BulkFirst(i))
                    => \/ BulkCreatedWith(BulkNorm(i)) # {}
                       \/ BulkErrorAt(i, "unexpected error")

\* a batch of three returned with a customer for record 1, an error for
\* record 2 and a customer for record 3
C5_Witness ==
    /\ BulkReturned
    /\ Len(arg[1]) = 3
    /\ Len(resp[1].customers) = 2
    /\ Len(resp[1].errors) = 1
    /\ BulkAnyErrorAt(2)

InputStock(in) == IF in.stock = None THEN 0 ELSE Val(in.stock)

\* C7, as claimed: create-product with price <= 0 or stock < 0 returns
\* success=false and no product; otherwise the product it persists has the
\* input's price and stock; every persisted product has price > 0 and
\* stock >= 0.  (Input prices are in thousandths, stored ones in hundredths.)
C7_ProductsPositiveAndAsInput ==
    /\ \A i \in 1..Len(products) :
        products[i].price > 0 /\ products[i].stock >= 0
    /\ Returned("create_product") =>
        IF arg[1].price <= 0 \/ InputStock(arg[1]) < 0
        THEN ~resp[1].success /\ resp[1].obj = None
        ELSE resp[1].success =>
                /\ 10 * products[Val(resp[1].obj)].price = arg[1].price
                /\ products[Val(resp[1].obj)].stock = InputStock(arg[1])

\* C8, as claimed: every mutation returns a structured payload, also when
\* the store raises during the create step, and a payload with success=false
\* has a non-empty message or a non-empty error list.
C8_AlwaysStructuredPayload ==
    pc[1] = "done" =>
        /\ IsPayload(resp[1])
        /\ (resp[1].op # "bulk_create_customers" /\ ~resp[1].success)
                => (resp[1].message # "" \/ resp[1].errors # <<>>)

\* C9, as claimed: of two concurrent create-customer requests with the same
\* email, one wins; whenever both have ended and one has created the
\* customer, the store holds exactly one customer with that email and the
\* other request has returned a success=false payload without a customer.
C9_LoserGetsFailurePayload ==
    \A r, q \in Slots :
        (/\ r # q
         /\ pc[r] = "done" /\ pc[q] = "done"
         /\ lower(strip(arg[r].email)) = lower(strip(arg[q].email))
         /\ IsPayload(resp[q]) /\ resp[q].success)
        => /\ Cardinality({ i \in 1..Len(customers) :
                              customers[i].email = lower(strip(arg[q].email)) }) = 1
           /\ IsPayload(resp[r])
           /\ ~resp[r].success
           /\ resp[r].obj = None

\* "+" and 7 to 15 digits, or DDD-DDD-DDDD, and nothing else
C10_Shape(s) ==
    \/ /\ Len(s) \in 8..16
       /\ s[1] = "+"
       /\ \A i \in 2..Len(s) : s[i] \in Digits
    \/ /\ Len(s) = 12
       /\ \A i \in {1, 2, 3, 5, 6, 7, 9, 10, 11, 12} : s[i] \in Digits
       /\ s[4] = "-" /\ s[8] = "-"

\* C10, as claimed: the validator accepts the absent and the empty phone,
\* and a non-empty string exactly when the whole string has one of the two
\* shapes.
C10_AcceptsExactlyTheShapes ==
    resp[1].op = "is_valid_phone" =>
        (resp[1].value <=>
            (arg[1] = None \/ Val(arg[1]) = <<>> \/ C10_Shape(Val(arg[1]))))

\* the fields of the create-customer input that violate the validation
\* rules, each with the text of its error
C11_Violations ==
    (IF strip(arg'[1].name) = <<>> THEN {"Name is required."} ELSE {})
    \cup (IF strip(arg'[1].email) = <<>> THEN {"Email is required."} ELSE {})
    \cup (IF ~is_valid_phone(CleanPhone(arg'[1].phone))
          THEN {"Phone format invalid."} ELSE {})

C11_ErrorTexts ==
    { resp'[1].errors[k].text : k \in 1..Len(resp'[1].errors) }

C11_PersistedAreValid ==
    \A i \in 1..Len(customers) :
        /\ customers[i].name # <<>>
        /\ customers[i].email # <<>>
        /\ customers[i].email = lower(customers[i].email)
        /\ is_valid_phone(customers[i].phone)

\* C11, as claimed: a create-customer call with an empty trimmed name, an
\* empty trimmed email or a non-empty phone that matches no pattern persists
\* nothing and returns success=false with one error for every violated field;
\* every persisted customer has a non-empty name, a non-empty lower-cased
\* email and a phone that is absent, empty or valid.
C11_AllViolationsReported ==
    /\ []C11_PersistedAreValid
    /\ [][(Returns("create_customer") /\ C11_Violations # {})
            => /\ IsPayload(resp'[1])
               /\ ~resp'[1].success
               /\ resp'[1].obj = None
               /\ customers' = customers
               /\ C11_ErrorTexts = C11_Violations
               /\ Len(resp'[1].errors) = Cardinality(C11_Violations)]_vars

\* the products of the queryset with a stock below v tenths
C12_Below(tenths) ==
    { pk \in arg[1].queryset : 10 * products[pk].stock < tenths }

\* C12, as claimed: the low-stock filter returns exactly the products of
\* the queryset whose stock is strictly less than the threshold; with an
\* absent threshold or one that cannot be converted to an integer it returns
\* the queryset unchanged.  (A Decimal threshold with a fraction is read
\* either way: as a number to compare with, or as not convertible.)
C12_StrictlyBelowThreshold ==
    (pc[1] = "done" /\ resp[1].op = "filter_low_stock") =>
        LET value == arg[1].value
            rows == resp[1].rows
        IN  CASE value.type = "None" -> rows = arg[1].queryset
              [] value.type = "str" ->
                    IF IntOfStr(value.s) = None
                    THEN rows = arg[1].queryset
                    ELSE rows = C12_Below(10 * Val(IntOfStr(value.s)))
              [] value.type = "Decimal" ->
                    \/ rows = C12_Below(value.tenths)
                    \/ value.tenths % 10 # 0 /\ rows = arg[1].queryset

\* between two calls every order has a customer of the store and a
\* non-empty set of products of the store
C13_OrdersWellFormed ==
    pc[1] \in {"idle", "done"} =>
        \A i \in 1..Len(orders) :
            /\ orders[i].customer \in 1..Len(customers)
            /\ orders[i].products # {}
            /\ orders[i].products \subseteq 1..Len(products)

C13_Rejected ==
    /\ IsPayload(resp'[1])
    /\ ~resp'[1].success
    /\ resp'[1].obj = None
    /\ orders' = orders

\* C13: after any sequence of mutations every persisted order references
\* one existing customer and at least one product, all existing; a
\* create-order call whose customer id does not resolve returns success=false
\* with the invalid-customer error whatever its product ids are, one with an
\* empty product-id sequence returns success=false, and neither persists an
\* order.
C13_OrdersReferenceExistingRows ==
    /\ []C13_OrdersWellFormed
    /\ [][Returns("create_order") =>
            /\ arg'[1].customer_id \notin 1..Len(customers)
                    => C13_Rejected /\ resp'[1].message = "Invalid customer ID."
            /\ (/\ arg'[1].customer_id \in 1..Len(customers)
                /\ arg'[1].product_ids = <<>>)
                    => C13_Rejected /\ resp'[1].errors # <<>>]_vars

\* with a customer and a product in the store, a create-order call naming a
\* customer id that does not resolve and a product id that does not resolve
\* was rejected for the customer id
C13_Witness ==
    /\ Returned("create_order")
    /\ Len(customers) > 0 /\ Len(products) > 0
    /\ arg[1].customer_id \notin 1..Len(customers)
    /\ \E k \in 1..Len(arg[1].product_ids) :
            arg[1].product_ids[k] \notin 1..Len(products)
    /\ resp[1].message = "Invalid customer ID."

\* the order_date string of the create-order input parses as an ISO datetime
C14_Parses ==
    /\ arg[1].order_date # None
    /\ fromisoformat(Val(arg[1].order_date)) # None

\* customer and product ids of the create-order input all resolve
C14_AllResolve ==
    /\ arg[1].customer_id \in 1..Len(customers)
    /\ arg[1].product_ids # <<>>
    /\ \A k \in 1..Len(arg[1].product_ids) :
            arg[1].product_ids[k] \in 1..Len(products)

\* C14, as claimed: the order timestamp never makes create-order fail (a
\* call whose ids all resolve fails for a store error only); the persisted
\* order_date is the parsed value when the string parses and the current
\* time when it is absent or does not parse, and the order is created with
\* success=true and no errors.
C14_TimestampParsedOrNow ==
    Returned("create_order") =>
        /\ (C14_AllResolve /\ ~resp[1].success)
                => resp[1].errors = <<Err("DatabaseError")>>
        /\ resp[1].success =>
            /\ resp[1].errors = <<>>
            /\ orders[Val(resp[1].obj)].order_date =
                    IF C14_Parses
                    THEN Val(fromisoformat(Val(arg[1].order_date)))
                    ELSE Now

IsPrefix(s, t) == Len(s) <= Len(t) /\ SubSeq(t, 1, Len(s)) = s

\* the orders persisted by earlier calls: inside the transaction of a
\* create-order call, the Order table as the call found it
C15_EarlierOrders ==
    IF pc[1] \in {"co_set", "co_save"} THEN loc[1].savepoint ELSE orders

C16_ErrorPositions ==
    { resp[1].errors[k].idx : k \in 1..Len(resp[1].errors) }

\* how many records up to position i have no error
C16_Rank(i) == Cardinality({ j \in 1..i : j \notin C16_ErrorPositions })

\* the error the checks name, email, phone, tried in that order, give
\* record i ("" when all three pass)
C16_FirstViolation(i) ==
    IF strip(arg[1][i].name) = <<>> THEN "name is required."
    ELSE IF BulkNorm(i) = <<>> THEN "email is required."
    ELSE IF ~is_valid_phone(CleanPhone(arg[1][i].phone)) THEN "invalid phone format."
    ELSE ""

\* C16: bulk-create-customers gives every record exactly one outcome: the
\* created customers and the errors together are as many as the records, no
\* position has two errors or an error and a customer, the errors are in
\* input order and so are the created customers (the k-th record without an
\* error is the k-th created customer), and the error of a record is the one
\* of the first failing check among name, email, phone, duplicate.
C16_OneOutcomePerRecord ==
    BulkReturned =>
        LET n == Len(arg[1])
            created == resp[1].customers
            errors == resp[1].errors
        IN  /\ Len(created) + Len(errors) = n
            /\ C16_ErrorPositions \subseteq 1..n
            /\ \A k, l \in 1..Len(errors) : k < l => errors[k].idx < errors[l].idx
            /\ \A k, l \in 1..Len(created) : k < l => created[k] < created[l]
            /\ \A i \in (1..n) \ C16_ErrorPositions :
                /\ C16_Rank(i) \in 1..Len(created)
                /\ created[C16_Rank(i)] \in 1..Len(customers)
                /\ customers[created[C16_Rank(i)]] =
                        [name |-> strip(arg[1][i].name), email |-> BulkNorm(i),
                         phone |-> CleanPhone(arg[1][i].phone)]
            /\ \A k \in 1..Len(errors) :
                IF C16_FirstViolation(errors[k].idx) # ""
                THEN errors[k].text = C16_FirstViolation(errors[k].idx)
                ELSE errors[k].text \in {"email already exists.", "unexpected error"}
            /\ \A i \in 1..n : C16_FirstViolation(i) # "" => i \in C16_ErrorPositions

\* a batch of three returned: a record violating name, email and phone at
\* once got the name error, a record was created and a record was reported
\* as a duplicate
C16_Witness ==
    /\ BulkReturned
    /\ Len(arg[1]) = 3
    /\ Len(resp[1].customers) = 1
    /\ \E k, l \in 1..Len(resp[1].errors) :
        /\ arg[1][resp[1].errors[k].idx] =
                [name |-> BlankName, email |-> BlankEmail, phone |-> ShortPhone]
        /\ resp[1].errors[k].text = "name is required."
        /\ resp[1].errors[l].text = "email already exists."

====
